---- MODULE Spec2Model ----
(***************************************************************************)
(* A model of gd-cell: the borrow-tracking state machine BorrowState, the  *)
(* cell GdCell that hosts a value under it, and the three guards whose     *)
(* destructors roll the state machine back.                                *)
(*                                                                         *)
(* The repository carries the state machine and the guards twice: inline   *)
(* in lib.rs (next to GdCell) and as the modules borrow_state.rs and       *)
(* guards.rs.  The variable `ver` says which pair a cell is linked with.   *)
(***************************************************************************)
EXTENDS Integers, Sequences, FiniteSets, TLC

\* The largest value of a counter (usize::MAX, scaled down): checked_add
\* fails at it.
UsizeMax == 3

\* How many guards of all kinds may be live at once.
MaxGuards == 4

\* The values a cell holds are 0..MaxVal.
MaxVal == 1

\* The max_len of arbitrary_ops (50 in the property tests, scaled down): the
\* operation vectors drawn are shorter than it.
MaxOps == 6

Threads == {1, 2}
Cells == {1, 2}
GuardIds == 1..MaxGuards
Values == 0..MaxVal

VARIABLES
    bs,         \* a bare BorrowState (borrow_state.rs) driven operation by operation
    bsOp,       \* the operation last applied to bs
    bsRes,      \* and what it returned
    ver,        \* "lib": BorrowState and guards of lib.rs; "mod": of borrow_state.rs, guards.rs
    debug,      \* cfg(debug_assertions): whether debug_assert_eq! is compiled in
    state,      \* GdCell::state, per cell: the BorrowState behind the state mutex
    current_ptr,\* GdCell::current_ptr, per cell: the address stack behind its mutex
    value,      \* GdCell::value, per cell (the address of cell c's value is c)
    lockState,  \* per cell: the thread holding the state mutex, or 0
    lockPtr,    \* per cell: the thread holding the current_ptr mutex, or 0
    poisonState,\* per cell: the state mutex is poisoned (a thread panicked holding it)
    poisonPtr,  \* per cell: the current_ptr mutex is poisoned
    guards,     \* the live guards, by id
    pc,         \* per thread: where it is in a call
    ret,        \* what the call completed last returned (v: the value a deref read)
    script,     \* where a scripted scenario is, the value it wrote last and the one before
    operations, \* the operation vector a property test drew
    executor_no_shared_pairs, \* the vector without its IncShared, DecShared pairs
    state_all,  \* the BorrowState the whole vector is executed on
    state_no_shared_pairs,    \* the BorrowState the shortened vector is executed on
    test        \* the statement a property test is at

bsVars == <<bs, bsOp, bsRes>>
cellVars == <<ver, debug, state, current_ptr, value, lockState, lockPtr,
              poisonState, poisonPtr, guards, pc, ret>>
testVars == <<operations, executor_no_shared_pairs, state_all,
              state_no_shared_pairs, test>>
vars == <<bs, bsOp, bsRes, ver, debug, state, current_ptr, value, lockState,
          lockPtr, poisonState, poisonPtr, guards, pc, ret, script,
          operations, executor_no_shared_pairs, state_all,
          state_no_shared_pairs, test>>

----------------------------------------------------------------------------
(* borrow_state.rs: the state machine.  An operation maps a state to the   *)
(* pair of the state it leaves and the result it returns.  "panic" is a    *)
(* failed assertion or an arithmetic underflow in has_possibly_aliasing.   *)

Ret(s, r) == [s |-> s, r |-> r]

IsErr(r) == r # "Ok"

new ==
    [shared_count |-> 0, mut_count |-> 0, non_aliasing_count |-> 0,
     poisoned |-> FALSE]

\* `mut_count - non_aliasing_count` underflows below 0 and the assertion
\* `count <= 1` fails above 1: both are panics.
has_possibly_aliasing_panics(s) ==
    s.mut_count - s.non_aliasing_count \notin {0, 1}

\* has_possibly_aliasing blind to the declarations.
has_possibly_aliasing_undeclared(s) == s.mut_count > 0

has_possibly_aliasing(s) ==
    s.mut_count - s.non_aliasing_count = 1

has_shared_reference(s) == s.shared_count > 0

poison(s) == Ret([s EXCEPT !.poisoned = TRUE], "Poisoned")

ensure_not_poisoned(s) == IF s.poisoned THEN "IsPoisoned" ELSE "Ok"

\* ensure_can_ref without its look at the aliasing borrow.
ensure_can_ref_unchecked(s) == ensure_not_poisoned(s)

ensure_can_ref(s) ==
    IF ensure_not_poisoned(s) # "Ok" THEN ensure_not_poisoned(s)
    ELSE IF has_possibly_aliasing_panics(s) THEN "panic"
    ELSE IF has_possibly_aliasing(s) THEN "HasAliasingRef"
    ELSE "Ok"

\* ensure_can_mut_ref without its look at the shared borrows.
ensure_can_mut_ref_ignoring_shared(s) ==
    IF ensure_not_poisoned(s) # "Ok" THEN ensure_not_poisoned(s)
    ELSE IF has_possibly_aliasing_panics(s) THEN "panic"
    ELSE IF has_possibly_aliasing(s) THEN "HasAliasingRef"
    ELSE "Ok"

ensure_can_mut_ref(s) ==
    IF ensure_not_poisoned(s) # "Ok" THEN ensure_not_poisoned(s)
    ELSE IF has_possibly_aliasing_panics(s) THEN "panic"
    ELSE IF has_possibly_aliasing(s) THEN "HasAliasingRef"
    ELSE IF s.shared_count # 0 THEN "HasSharedRef"
    ELSE "Ok"

\* increment_shared that takes every exclusive borrow, declared or not, for
\* a possibly aliasing one.
increment_shared_refusing_declared(s) ==
    IF ensure_not_poisoned(s) # "Ok" THEN Ret(s, ensure_not_poisoned(s))
    ELSE IF s.mut_count > 0 THEN Ret(s, "HasAliasingRef")
    ELSE IF s.shared_count = UsizeMax THEN Ret(s, "Custom")
    ELSE Ret([s EXCEPT !.shared_count = @ + 1], "Ok")

\* increment_shared with a wrapping addition in place of checked_add.
increment_shared_wrapping(s) ==
    IF ensure_not_poisoned(s) # "Ok" THEN Ret(s, ensure_not_poisoned(s))
    ELSE IF ensure_can_ref(s) # "Ok" THEN Ret(s, ensure_can_ref(s))
    ELSE Ret([s EXCEPT !.shared_count = (@ + 1) % (UsizeMax + 1)], "Ok")

increment_shared(s) ==
    IF ensure_not_poisoned(s) # "Ok" THEN Ret(s, ensure_not_poisoned(s))
    ELSE IF ensure_can_ref(s) # "Ok" THEN Ret(s, ensure_can_ref(s))
    ELSE IF s.shared_count = UsizeMax THEN Ret(s, "Custom")
    ELSE Ret([s EXCEPT !.shared_count = @ + 1], "Ok")

\* decrement_shared that returns Ok without releasing the borrow.
decrement_shared_keeping(s) ==
    IF ensure_not_poisoned(s) # "Ok" THEN Ret(s, ensure_not_poisoned(s))
    ELSE IF s.shared_count = 0 THEN Ret(s, "NoSharedRef")
    ELSE Ret(s, "Ok")

decrement_shared(s) ==
    IF ensure_not_poisoned(s) # "Ok" THEN Ret(s, ensure_not_poisoned(s))
    ELSE IF s.shared_count = 0 THEN Ret(s, "NoSharedRef")
    ELSE IF has_possibly_aliasing_panics(s) THEN Ret(s, "panic")
    ELSE IF has_possibly_aliasing(s) THEN poison(s)
    ELSE Ret([s EXCEPT !.shared_count = @ - 1], "Ok")

increment_mut(s) ==
    IF ensure_not_poisoned(s) # "Ok" THEN Ret(s, ensure_not_poisoned(s))
    ELSE IF ensure_can_mut_ref(s) # "Ok" THEN Ret(s, ensure_can_mut_ref(s))
    ELSE IF s.mut_count = UsizeMax THEN Ret(s, "Custom")
    ELSE Ret([s EXCEPT !.mut_count = @ + 1], "Ok")

\* decrement_mut releasing a borrow that is still declared non-aliasing.
decrement_mut_releasing_declared(s) ==
    IF ensure_not_poisoned(s) # "Ok" THEN Ret(s, ensure_not_poisoned(s))
    ELSE IF s.mut_count = 0 THEN Ret(s, "NoMutRef")
    ELSE Ret([s EXCEPT !.mut_count = @ - 1], "Ok")

\* decrement_mut treating a declared borrow as an inconsistency.
decrement_mut_poisoning(s) ==
    IF ensure_not_poisoned(s) # "Ok" THEN Ret(s, ensure_not_poisoned(s))
    ELSE IF s.mut_count = 0 THEN Ret(s, "NoMutRef")
    ELSE IF s.mut_count - 1 # s.non_aliasing_count THEN poison(s)
    ELSE Ret([s EXCEPT !.mut_count = @ - 1], "Ok")

decrement_mut(s) ==
    IF ensure_not_poisoned(s) # "Ok" THEN Ret(s, ensure_not_poisoned(s))
    ELSE IF s.mut_count = 0 THEN Ret(s, "NoMutRef")
    ELSE IF s.mut_count = s.non_aliasing_count THEN Ret(s, "IsNonAliasing")
    ELSE IF s.mut_count - 1 # s.non_aliasing_count THEN poison(s)
    ELSE Ret([s EXCEPT !.mut_count = @ - 1], "Ok")

\* set_non_aliasing without its precondition.
set_non_aliasing_unchecked(s) ==
    IF s.non_aliasing_count = UsizeMax THEN Ret(s, "Custom")
    ELSE Ret([s EXCEPT !.non_aliasing_count = @ + 1], "Ok")

set_non_aliasing(s) ==
    IF has_possibly_aliasing_panics(s) THEN Ret(s, "panic")
    ELSE IF ~has_possibly_aliasing(s) THEN Ret(s, "NoAliasingRef")
    ELSE IF s.non_aliasing_count = UsizeMax THEN Ret(s, "Custom")
    ELSE Ret([s EXCEPT !.non_aliasing_count = @ + 1], "Ok")

\* unset_non_aliasing without its look at the shared borrows (as
\* decrement_non_aliasing of lib.rs).
unset_non_aliasing_ignoring_shared(s) ==
    IF has_possibly_aliasing_panics(s) THEN Ret(s, "panic")
    ELSE IF has_possibly_aliasing(s) THEN Ret(s, "HasAliasingRef")
    ELSE IF s.non_aliasing_count = 0 THEN Ret(s, "Custom")
    ELSE Ret([s EXCEPT !.non_aliasing_count = @ - 1], "Ok")

\* unset_non_aliasing that revokes every declaration at once.
unset_non_aliasing_clearing(s) ==
    IF has_possibly_aliasing_panics(s) THEN Ret(s, "panic")
    ELSE IF has_possibly_aliasing(s) THEN Ret(s, "HasAliasingRef")
    ELSE IF s.shared_count > 0 THEN Ret(s, "HasSharedRef")
    ELSE IF s.non_aliasing_count = 0 THEN Ret(s, "Custom")
    ELSE Ret([s EXCEPT !.non_aliasing_count = 0], "Ok")

\* unset_non_aliasing without its look at the possibly aliasing borrow.
unset_non_aliasing_despite_aliasing(s) ==
    IF s.shared_count > 0 THEN Ret(s, "HasSharedRef")
    ELSE IF s.non_aliasing_count = 0 THEN Ret(s, "Custom")
    ELSE Ret([s EXCEPT !.non_aliasing_count = @ - 1], "Ok")

unset_non_aliasing(s) ==
    IF has_possibly_aliasing_panics(s) THEN Ret(s, "panic")
    ELSE IF has_possibly_aliasing(s) THEN Ret(s, "HasAliasingRef")
    ELSE IF s.shared_count > 0 THEN Ret(s, "HasSharedRef")
    ELSE IF s.non_aliasing_count = 0 THEN Ret(s, "Custom")
    ELSE Ret([s EXCEPT !.non_aliasing_count = @ - 1], "Ok")

----------------------------------------------------------------------------
(* lib.rs: the state machine kept inline next to GdCell.  It has no        *)
(* `poisoned` flag (the field stays FALSE here), returns Err(String), and  *)
(* its decrements assert instead of returning errors.  `dbg` is            *)
(* cfg(debug_assertions).                                                  *)

\* `self.mut_count - self.non_aliasing_count` on usize: an underflow panics
\* in a debug build and wraps in a release build.
lib_underflows(s) == s.non_aliasing_count > s.mut_count

lib_possibly_aliasing_count(s) ==
    (s.mut_count - s.non_aliasing_count) % (UsizeMax + 1)

lib_may_ref(s) == lib_possibly_aliasing_count(s) = 0

lib_may_mut_ref(s) ==
    lib_possibly_aliasing_count(s) = 0 /\ s.shared_count = 0

lib_increment_shared(s, dbg) ==
    IF dbg /\ lib_underflows(s) THEN Ret(s, "panic")
    ELSE IF ~lib_may_ref(s) THEN Ret(s, "Err(possibly aliasing)")
    ELSE IF s.shared_count = UsizeMax THEN Ret(s, "Err(overflow)")
    ELSE Ret([s EXCEPT !.shared_count = @ + 1], "Ok")

lib_decrement_shared(s, dbg) ==
    IF dbg /\ lib_underflows(s) THEN Ret(s, "panic")
    ELSE IF dbg /\ lib_possibly_aliasing_count(s) # 0 THEN Ret(s, "panic")
    ELSE IF s.shared_count = 0 THEN Ret(s, "panic")
    ELSE Ret([s EXCEPT !.shared_count = @ - 1], "Ok")

lib_increment_mut(s, dbg) ==
    IF dbg /\ lib_underflows(s) THEN Ret(s, "panic")
    ELSE IF lib_possibly_aliasing_count(s) # 0
         THEN Ret(s, "Err(possibly aliasing)")
    ELSE IF s.shared_count # 0 THEN Ret(s, "Err(shared)")
    ELSE IF s.mut_count = UsizeMax THEN Ret(s, "Err(overflow)")
    ELSE Ret([s EXCEPT !.mut_count = @ + 1], "Ok")

lib_decrement_mut(s, dbg) ==
    IF dbg /\ s.mut_count # s.non_aliasing_count + 1 THEN Ret(s, "panic")
    ELSE IF s.mut_count = 0 THEN Ret(s, "panic")
    ELSE Ret([s EXCEPT !.mut_count = @ - 1,
                       !.non_aliasing_count = s.mut_count - 1], "Ok")

lib_increment_non_aliasing(s, dbg) ==
    IF dbg /\ lib_underflows(s) THEN Ret(s, "panic")
    ELSE IF lib_possibly_aliasing_count(s) = 0
         THEN Ret(s, "Err(no possibly aliasing)")
    ELSE IF s.non_aliasing_count = UsizeMax THEN Ret(s, "Err(overflow)")
    ELSE Ret([s EXCEPT !.non_aliasing_count = @ + 1], "Ok")

lib_decrement_non_aliasing(s, dbg) ==
    IF dbg /\ lib_underflows(s) THEN Ret(s, "panic")
    ELSE IF lib_possibly_aliasing_count(s) > 0
         THEN Ret(s, "Err(possibly aliasing)")
    ELSE IF s.non_aliasing_count = 0 THEN Ret(s, "Err(no non-aliasing)")
    ELSE Ret([s EXCEPT !.non_aliasing_count = @ - 1], "Ok")

----------------------------------------------------------------------------
(* The six operations applied in any order to BorrowState::new(), as the   *)
(* property tests of borrow_state.rs do (Operation::execute).              *)

BsApply(op, r) ==
    /\ bsRes # "panic"          \* a panic ends the trace
    /\ bs' = r.s
    /\ bsOp' = op
    /\ bsRes' = r.r

IncShared == BsApply("IncShared", increment_shared(bs))
DecShared == BsApply("DecShared", decrement_shared(bs))
IncMut == BsApply("IncMut", increment_mut(bs))
DecMut == BsApply("DecMut", decrement_mut(bs))
SetNoAlias == BsApply("SetNoAlias", set_non_aliasing(bs))
UnsetNoAlias == BsApply("UnsetNoAlias", unset_non_aliasing(bs))

BsInit ==
    /\ bs = new
    /\ bsOp = "new"
    /\ bsRes = "Ok"

----------------------------------------------------------------------------
(* The property test remove_shared_inc_dec_pairs_is_noop of                *)
(* borrow_state.rs: a vector of operations is executed on one state, the   *)
(* vector without its adjacent IncShared, DecShared pairs on another.      *)

Operation ==
    {"IncShared", "DecShared", "IncMut", "DecMut", "SetNoAlias", "UnsetNoAlias"}

execute(op, s) ==
    CASE op = "IncShared" -> increment_shared(s)
      [] op = "DecShared" -> decrement_shared(s)
      [] op = "IncMut" -> increment_mut(s)
      [] op = "DecMut" -> decrement_mut(s)
      [] op = "SetNoAlias" -> set_non_aliasing(s)
      [] op = "UnsetNoAlias" -> unset_non_aliasing(s)

\* execute_all: every operation in turn, errors ignored; the result is
\* "panic" if an operation panicked (the state is the one it stopped at).
RECURSIVE execute_all(_, _)
execute_all(vec, s) ==
    IF vec = <<>> THEN Ret(s, "Ok")
    ELSE LET r == execute(Head(vec), s) IN
         IF r.r = "panic" THEN r ELSE execute_all(Tail(vec), r.s)

\* The index of the first IncShared that a DecShared follows directly, or 0.
inc_index(vec) ==
    LET found == {i \in 1..(Len(vec) - 1) :
                     vec[i] = "IncShared" /\ vec[i + 1] = "DecShared"} IN
    IF found = {} THEN 0
    ELSE CHOOSE i \in found : \A j \in found : i <= j

\* vec.remove(i + 1); vec.remove(i).
remove_pair(vec, i) == SubSeq(vec, 1, i - 1) \o SubSeq(vec, i + 2, Len(vec))

RECURSIVE remove_shared_inc_dec_pairs(_)
remove_shared_inc_dec_pairs(vec) ==
    IF inc_index(vec) = 0 THEN vec
    ELSE remove_shared_inc_dec_pairs(remove_pair(vec, inc_index(vec)))

\* arbitrary_ops(max_len): any vector of operations shorter than max_len.
arbitrary_ops(max_len) ==
    UNION {[1..len -> Operation] : len \in 0..(max_len - 1)}

remove_shared_inc_dec_pairs_is_noop_init ==
    /\ operations \in arbitrary_ops(MaxOps)
    /\ executor_no_shared_pairs = <<>>
    /\ state_all = new
    /\ state_no_shared_pairs = new
    /\ test = "state_all"

\* executor_all.execute_all(&mut state_all)
executor_all_execute_all ==
    /\ test = "state_all"
    /\ state_all' = execute_all(operations, state_all).s
    /\ test' = IF execute_all(operations, state_all).r = "panic"
               THEN "panicked" ELSE "executor_no_shared_pairs"
    /\ UNCHANGED <<operations, executor_no_shared_pairs, state_no_shared_pairs>>

\* executor_all.clone().remove_shared_inc_dec_pairs()
executor_all_remove_shared_inc_dec_pairs ==
    /\ test = "executor_no_shared_pairs"
    /\ executor_no_shared_pairs' = remove_shared_inc_dec_pairs(operations)
    /\ test' = "state_no_shared_pairs"
    /\ UNCHANGED <<operations, state_all, state_no_shared_pairs>>

\* executor_no_shared_pairs.execute_all(&mut state_no_shared_pairs)
executor_no_shared_pairs_execute_all ==
    /\ test = "state_no_shared_pairs"
    /\ state_no_shared_pairs' =
           execute_all(executor_no_shared_pairs, state_no_shared_pairs).s
    /\ test' = IF execute_all(executor_no_shared_pairs,
                              state_no_shared_pairs).r = "panic"
               THEN "panicked" ELSE "assert_eq"
    /\ UNCHANGED <<operations, executor_no_shared_pairs, state_all>>


----------------------------------------------------------------------------
(* GdCell (lib.rs) and the guards.  A call is a sequence of steps, one per *)
(* mutex acquisition: everything a thread does between two acquisitions    *)
(* touches only data it has locked, so it is one step.  A step that needs  *)
(* a mutex another thread holds is not enabled (the thread blocks).        *)
(* `lock().unwrap()` on a poisoned mutex panics; a panic with a mutex held *)
(* poisons it; a panic while a thread unwinds aborts the process.          *)

NoGuard == [kind |-> "none", cell |-> 0, owner |-> 0, count |-> 0,
            value |-> 0, of |-> 0]

Idle == [at |-> "idle", c |-> 0, g |-> 0, count |-> 0,
         unwinding |-> FALSE, why |-> ""]

NoRet == [op |-> "", r |-> "", v |-> 0]

\* The state machine and the destructors a cell is linked with.
IncrementShared(s) ==
    IF ver = "lib" THEN lib_increment_shared(s, debug) ELSE increment_shared(s)

IncrementMut(s) ==
    IF ver = "lib" THEN lib_increment_mut(s, debug) ELSE increment_mut(s)

\* increment_non_aliasing as a flag: one declaration at a time.
IncrementNonAliasing_single(s) ==
    IF s.non_aliasing_count > 0 THEN Ret(s, "Err(already non-aliasing)")
    ELSE IF ver = "lib" THEN lib_increment_non_aliasing(s, debug)
    ELSE set_non_aliasing(s)

IncrementNonAliasing(s) ==
    IF ver = "lib" THEN lib_increment_non_aliasing(s, debug)
    ELSE set_non_aliasing(s)

\* `.unwrap()` of a destructor: any error is a panic (the state keeps what
\* the failed call did to it).
Unwrap(r) == IF r.r = "Ok" THEN r ELSE Ret(r.s, "panic")

GdRefDrop(s) ==
    IF ver = "lib" THEN lib_decrement_shared(s, debug)
    ELSE Unwrap(decrement_shared(s))

\* A destructor of GdMut that returns without decrement_mut.
GdMutDrop_forgetting(s) == Ret(s, "Ok")

GdMutDrop(s) ==
    IF ver = "lib" THEN lib_decrement_mut(s, debug)
    ELSE Unwrap(decrement_mut(s))

NonAliasingGuardDrop(s) ==
    IF ver = "lib" THEN Unwrap(lib_decrement_non_aliasing(s, debug))
    ELSE Unwrap(unset_non_aliasing(s))

mut_count(s) == s.mut_count

\* get_value initialising every stack with the address of the first cell's
\* value.
get_value_of_first_cell(stack, c) == IF stack = <<>> THEN <<1>> ELSE stack

\* get_value: the stack with the base address pushed if it was empty; the
\* address handed out is its last entry.
get_value(stack, c) == IF stack = <<>> THEN <<c>> ELSE stack

Last(stack) == stack[Len(stack)]

FreeIds == {i \in GuardIds : guards[i] = NoGuard}

\* Threads that are in the middle of a call that ends by creating a guard.
Pending ==
    {t \in Threads : pc[t].at \in {"gd_ref:get_value", "gd_mut:get_value",
                                   "set_non_aliasing:state"}}

HasRoom == Cardinality(FreeIds) > Cardinality(Pending)

NewId == CHOOSE i \in FreeIds : \A j \in FreeIds : i <= j

\* The borrow `&'b mut T` that a NonAliasingGuard<'b, T> keeps on the guard
\* its reference was taken from: while it lives the compiler accepts no
\* other use of that guard (no deref, no second declaration, no drop).
Borrowed(g) ==
    \E n \in GuardIds : guards[n].kind = "NonAliasingGuard" /\ guards[n].of = g

\* A thread may start a call when it runs normally; while it unwinds from a
\* panic it only runs destructors.
CanCall(t) == pc[t].at = "idle"
CanDrop(t) == pc[t].at \in {"idle", "panicked"}

Rest(t) ==
    IF pc[t].unwinding
    THEN [Idle EXCEPT !.at = "panicked", !.unwinding = TRUE, !.why = pc[t].why]
    ELSE Idle

Return(t, op, r, v) ==
    /\ pc' = [pc EXCEPT ![t] = Rest(t)]
    /\ ret' = [op |-> op, r |-> r, v |-> v]

Panic(t, op) ==
    /\ pc' = IF pc[t].unwinding
             THEN [u \in Threads |-> [Idle EXCEPT !.at = "aborted", !.why = op]]
             ELSE [pc EXCEPT ![t] = [Idle EXCEPT !.at = "panicked",
                                        !.unwinding = TRUE, !.why = op]]
    /\ ret' = [op |-> op, r |-> "panic", v |-> 0]

\* GdCell::gd_ref, first statement: lock state, increment_shared()?, unlock.
gd_ref(t, c) ==
    /\ CanCall(t) /\ HasRoom
    /\ lockState[c] = 0
    /\ UNCHANGED <<ver, debug, current_ptr, value, lockState, lockPtr,
                   poisonPtr, guards>>
    /\ IF poisonState[c]
       THEN Panic(t, "gd_ref") /\ UNCHANGED <<state, poisonState>>
       ELSE LET r == IncrementShared(state[c]) IN
            /\ state' = [state EXCEPT ![c] = r.s]
            /\ IF r.r = "panic"
               THEN /\ Panic(t, "gd_ref")
                    /\ poisonState' = [poisonState EXCEPT ![c] = TRUE]
               ELSE /\ UNCHANGED poisonState
                    /\ IF r.r = "Ok"
                       THEN /\ pc' = [pc EXCEPT ![t] =
                                  [Idle EXCEPT !.at = "gd_ref:get_value", !.c = c]]
                            /\ UNCHANGED ret
                       ELSE Return(t, "gd_ref", r.r, 0)

\* GdCell::gd_ref, get_value(): lock current_ptr, push the base if empty,
\* read the last entry, unlock; build the GdRef.
gd_ref_get_value(t) ==
    LET c == pc[t].c IN
    /\ pc[t].at = "gd_ref:get_value"
    /\ lockPtr[c] = 0
    /\ UNCHANGED <<ver, debug, state, value, lockState, lockPtr, poisonState,
                   poisonPtr>>
    /\ IF poisonPtr[c]
       THEN Panic(t, "gd_ref") /\ UNCHANGED <<current_ptr, guards>>
       ELSE /\ current_ptr' = [current_ptr EXCEPT ![c] = get_value(@, c)]
            /\ guards' = [guards EXCEPT ![NewId] =
                   [NoGuard EXCEPT !.kind = "GdRef", !.cell = c, !.owner = t,
                                   !.value = Last(get_value(current_ptr[c], c))]]
            /\ Return(t, "gd_ref", "Ok", 0)

\* GdCell::gd_mut up to get_value: lock state (kept until the function
\* returns), increment_mut()?, read mut_count.
gd_mut(t, c) ==
    /\ CanCall(t) /\ HasRoom
    /\ lockState[c] = 0
    /\ UNCHANGED <<ver, debug, current_ptr, value, lockPtr, poisonPtr, guards>>
    /\ IF poisonState[c]
       THEN Panic(t, "gd_mut") /\ UNCHANGED <<state, poisonState, lockState>>
       ELSE LET r == IncrementMut(state[c]) IN
            /\ state' = [state EXCEPT ![c] = r.s]
            /\ IF r.r = "panic"
               THEN /\ Panic(t, "gd_mut")
                    /\ poisonState' = [poisonState EXCEPT ![c] = TRUE]
                    /\ UNCHANGED lockState
               ELSE /\ UNCHANGED poisonState
                    /\ IF r.r = "Ok"
                       THEN /\ pc' = [pc EXCEPT ![t] =
                                  [Idle EXCEPT !.at = "gd_mut:get_value", !.c = c,
                                               !.count = mut_count(r.s)]]
                            /\ lockState' = [lockState EXCEPT ![c] = t]
                            /\ UNCHANGED ret
                       ELSE Return(t, "gd_mut", r.r, 0) /\ UNCHANGED lockState

\* gd_mut returning its GdMut with the state mutex still locked.
gd_mut_get_value_keeping_lock(t) ==
    LET c == pc[t].c IN
    /\ pc[t].at = "gd_mut:get_value"
    /\ lockPtr[c] = 0
    /\ UNCHANGED <<ver, debug, state, value, lockState, lockPtr, poisonPtr>>
    /\ IF poisonPtr[c]
       THEN /\ Panic(t, "gd_mut")
            /\ poisonState' = [poisonState EXCEPT ![c] = TRUE]
            /\ UNCHANGED <<current_ptr, guards>>
       ELSE /\ current_ptr' = [current_ptr EXCEPT ![c] = get_value(@, c)]
            /\ guards' = [guards EXCEPT ![NewId] =
                   [NoGuard EXCEPT !.kind = "GdMut", !.cell = c, !.owner = t,
                                   !.count = pc[t].count,
                                   !.value = Last(get_value(current_ptr[c], c))]]
            /\ UNCHANGED poisonState
            /\ Return(t, "gd_mut", "Ok", 0)

\* GdCell::gd_mut, get_value() with the state mutex held; then build the
\* GdMut and release the state mutex.
gd_mut_get_value(t) ==
    LET c == pc[t].c IN
    /\ pc[t].at = "gd_mut:get_value"
    /\ lockPtr[c] = 0
    /\ lockState' = [lockState EXCEPT ![c] = 0]
    /\ UNCHANGED <<ver, debug, state, value, lockPtr, poisonPtr>>
    /\ IF poisonPtr[c]
       THEN /\ Panic(t, "gd_mut")
            /\ poisonState' = [poisonState EXCEPT ![c] = TRUE]
            /\ UNCHANGED <<current_ptr, guards>>
       ELSE /\ current_ptr' = [current_ptr EXCEPT ![c] = get_value(@, c)]
            /\ guards' = [guards EXCEPT ![NewId] =
                   [NoGuard EXCEPT !.kind = "GdMut", !.cell = c, !.owner = t,
                                   !.count = pc[t].count,
                                   !.value = Last(get_value(current_ptr[c], c))]]
            /\ UNCHANGED poisonState
            /\ Return(t, "gd_mut", "Ok", 0)

\* `current_ptr != ptr` without the comparison.
wrong_reference_unchecked(stack, ptr) == FALSE

\* `current_ptr != ptr`: the reference passed in is not the one handed out
\* last.
wrong_reference(stack, ptr) == Last(stack) # ptr

\* GdCell::set_non_aliasing up to the state mutex: lock current_ptr (kept
\* until the end), take its last entry, compare it with the address of the
\* reference passed in.  The reference is the one taken from the caller's
\* GdMut g.
set_non_aliasing_check(t, c, g) ==
    /\ CanCall(t) /\ HasRoom
    /\ guards[g].kind = "GdMut" /\ guards[g].owner = t /\ ~Borrowed(g)
    /\ lockPtr[c] = 0
    /\ UNCHANGED <<ver, debug, state, current_ptr, value, lockState,
                   poisonState, guards>>
    /\ IF poisonPtr[c]
       THEN Panic(t, "set_non_aliasing") /\ UNCHANGED <<lockPtr, poisonPtr>>
       ELSE IF current_ptr[c] = <<>>
       THEN /\ Panic(t, "set_non_aliasing")
            /\ poisonPtr' = [poisonPtr EXCEPT ![c] = TRUE]
            /\ UNCHANGED lockPtr
       ELSE IF wrong_reference(current_ptr[c], guards[g].value)
       THEN /\ Return(t, "set_non_aliasing", "Err(wrong reference)", 0)
            /\ UNCHANGED <<lockPtr, poisonPtr>>
       ELSE /\ lockPtr' = [lockPtr EXCEPT ![c] = t]
            /\ pc' = [pc EXCEPT ![t] =
                   [Idle EXCEPT !.at = "set_non_aliasing:state", !.c = c, !.g = g]]
            /\ UNCHANGED <<ret, poisonPtr>>

\* GdCell::set_non_aliasing, the rest: lock state, increment_non_aliasing,
\* push the address (whatever the result was), unlock both, map the result
\* to a NonAliasingGuard.
set_non_aliasing_state(t) ==
    LET c == pc[t].c
        g == pc[t].g
    IN
    /\ pc[t].at = "set_non_aliasing:state"
    /\ lockState[c] = 0
    /\ lockPtr' = [lockPtr EXCEPT ![c] = 0]
    /\ UNCHANGED <<ver, debug, value, lockState>>
    /\ IF poisonState[c]
       THEN /\ Panic(t, "set_non_aliasing")
            /\ poisonPtr' = [poisonPtr EXCEPT ![c] = TRUE]
            /\ UNCHANGED <<state, current_ptr, poisonState, guards>>
       ELSE LET r == IncrementNonAliasing(state[c]) IN
            /\ state' = [state EXCEPT ![c] = r.s]
            /\ IF r.r = "panic"
               THEN /\ Panic(t, "set_non_aliasing")
                    /\ poisonPtr' = [poisonPtr EXCEPT ![c] = TRUE]
                    /\ poisonState' = [poisonState EXCEPT ![c] = TRUE]
                    /\ UNCHANGED <<current_ptr, guards>>
               ELSE /\ current_ptr' = [current_ptr EXCEPT
                                          ![c] = Append(@, guards[g].value)]
                    /\ UNCHANGED <<poisonState, poisonPtr>>
                    /\ IF r.r = "Ok"
                       THEN /\ guards' = [guards EXCEPT ![NewId] =
                                   [NoGuard EXCEPT !.kind = "NonAliasingGuard",
                                        !.cell = c, !.owner = t, !.of = g]]
                            /\ Return(t, "set_non_aliasing", "Ok", 0)
                       ELSE /\ UNCHANGED guards
                            /\ Return(t, "set_non_aliasing", r.r, 0)

\* impl Drop for GdRef: lock state, decrement_shared (asserted), unlock.
GdRef_drop(t, g) ==
    LET c == guards[g].cell IN
    /\ CanDrop(t)
    /\ guards[g].kind = "GdRef" /\ guards[g].owner = t
    /\ lockState[c] = 0
    /\ guards' = [guards EXCEPT ![g] = NoGuard]
    /\ UNCHANGED <<ver, debug, current_ptr, value, lockState, lockPtr, poisonPtr>>
    /\ IF poisonState[c]
       THEN Panic(t, "GdRef::drop") /\ UNCHANGED <<state, poisonState>>
       ELSE LET r == GdRefDrop(state[c]) IN
            /\ state' = [state EXCEPT ![c] = r.s]
            /\ IF r.r = "panic"
               THEN /\ Panic(t, "GdRef::drop")
                    /\ poisonState' = [poisonState EXCEPT ![c] = TRUE]
               ELSE /\ Return(t, "GdRef::drop", "Ok", 0)
                    /\ UNCHANGED poisonState

\* impl Drop for GdMut: lock state, decrement_mut (asserted), unlock.
GdMut_drop(t, g) ==
    LET c == guards[g].cell IN
    /\ CanDrop(t)
    /\ guards[g].kind = "GdMut" /\ guards[g].owner = t /\ ~Borrowed(g)
    /\ lockState[c] = 0
    /\ guards' = [guards EXCEPT ![g] = NoGuard]
    /\ UNCHANGED <<ver, debug, current_ptr, value, lockState, lockPtr, poisonPtr>>
    /\ IF poisonState[c]
       THEN Panic(t, "GdMut::drop") /\ UNCHANGED <<state, poisonState>>
       ELSE LET r == GdMutDrop(state[c]) IN
            /\ state' = [state EXCEPT ![c] = r.s]
            /\ IF r.r = "panic"
               THEN /\ Panic(t, "GdMut::drop")
                    /\ poisonState' = [poisonState EXCEPT ![c] = TRUE]
               ELSE /\ Return(t, "GdMut::drop", "Ok", 0)
                    /\ UNCHANGED poisonState

\* impl Drop for NonAliasingGuard, first statement: lock state (kept).
NonAliasingGuard_drop(t, g) ==
    LET c == guards[g].cell IN
    /\ CanDrop(t)
    /\ guards[g].kind = "NonAliasingGuard" /\ guards[g].owner = t
    /\ lockState[c] = 0
    /\ UNCHANGED <<ver, debug, state, current_ptr, value, lockPtr, poisonState,
                   poisonPtr>>
    /\ IF poisonState[c]
       THEN /\ Panic(t, "NonAliasingGuard::drop")
            /\ guards' = [guards EXCEPT ![g] = NoGuard]
            /\ UNCHANGED lockState
       ELSE /\ lockState' = [lockState EXCEPT ![c] = t]
            /\ pc' = [pc EXCEPT ![t] =
                   [pc[t] EXCEPT !.at = "NonAliasingGuard::drop:ptr",
                                 !.c = c, !.g = g]]
            /\ UNCHANGED <<ret, guards>>

\* impl Drop for NonAliasingGuard, the rest: lock current_ptr, revoke the
\* declaration (asserted), pop one address (asserted), unlock both.
NonAliasingGuard_drop_ptr(t) ==
    LET c == pc[t].c
        g == pc[t].g
    IN
    /\ pc[t].at = "NonAliasingGuard::drop:ptr"
    /\ lockPtr[c] = 0
    /\ lockState' = [lockState EXCEPT ![c] = 0]
    /\ guards' = [guards EXCEPT ![g] = NoGuard]
    /\ UNCHANGED <<ver, debug, value, lockPtr>>
    /\ IF poisonPtr[c]
       THEN /\ Panic(t, "NonAliasingGuard::drop")
            /\ poisonState' = [poisonState EXCEPT ![c] = TRUE]
            /\ UNCHANGED <<state, current_ptr, poisonPtr>>
       ELSE LET r == NonAliasingGuardDrop(state[c]) IN
            /\ state' = [state EXCEPT ![c] = r.s]
            /\ IF r.r = "panic" \/ current_ptr[c] = <<>>
               THEN /\ Panic(t, "NonAliasingGuard::drop")
                    /\ poisonState' = [poisonState EXCEPT ![c] = TRUE]
                    /\ poisonPtr' = [poisonPtr EXCEPT ![c] = TRUE]
                    /\ UNCHANGED current_ptr
               ELSE /\ current_ptr' = [current_ptr EXCEPT
                           ![c] = SubSeq(@, 1, Len(@) - 1)]
                    /\ Return(t, "NonAliasingGuard::drop", "Ok", 0)
                    /\ UNCHANGED <<poisonState, poisonPtr>>

\* The check of GdMut::deref and deref_mut: lock state, read mut_count,
\* unlock, assert it equals the captured count.
GdMut_deref_check(g) == guards[g].count = mut_count(state[guards[g].cell])

\* GdMut::deref, then a read through the reference.
GdMut_deref(t, g) ==
    LET c == guards[g].cell IN
    /\ CanCall(t)
    /\ guards[g].kind = "GdMut" /\ guards[g].owner = t /\ ~Borrowed(g)
    /\ lockState[c] = 0
    /\ UNCHANGED <<ver, debug, state, current_ptr, value, lockState, lockPtr,
                   poisonState, poisonPtr, guards>>
    /\ IF poisonState[c] \/ ~GdMut_deref_check(g)
       THEN Panic(t, "GdMut::deref")
       ELSE Return(t, "GdMut::deref", "Ok", value[guards[g].value])

\* GdMut::deref_mut, then a write of v through the reference.
GdMut_deref_mut(t, g, v) ==
    LET c == guards[g].cell IN
    /\ CanCall(t)
    /\ guards[g].kind = "GdMut" /\ guards[g].owner = t /\ ~Borrowed(g)
    /\ lockState[c] = 0
    /\ UNCHANGED <<ver, debug, state, current_ptr, lockState, lockPtr,
                   poisonState, poisonPtr, guards>>
    /\ IF poisonState[c] \/ ~GdMut_deref_check(g)
       THEN Panic(t, "GdMut::deref_mut") /\ UNCHANGED value
       ELSE /\ value' = [value EXCEPT ![guards[g].value] = v]
            /\ Return(t, "GdMut::deref_mut", "Ok", v)

\* GdRef::deref (no check, no lock), then a read through the reference.
GdRef_deref(t, g) ==
    /\ CanCall(t)
    /\ guards[g].kind = "GdRef" /\ guards[g].owner = t
    /\ UNCHANGED <<ver, debug, state, current_ptr, value, lockState, lockPtr,
                   poisonState, poisonPtr, guards>>
    /\ Return(t, "GdRef::deref", "Ok", value[guards[g].value])

\* std::mem::forget(guard): the guard goes away without its destructor
\* (safe code may leak any value it owns and that nothing borrows).
forget(t, g) ==
    /\ CanCall(t)
    /\ guards[g].kind # "none" /\ guards[g].owner = t /\ ~Borrowed(g)
    /\ guards' = [guards EXCEPT ![g] = NoGuard]
    /\ UNCHANGED <<ver, debug, state, current_ptr, value, lockState, lockPtr,
                   poisonState, poisonPtr, pc, ret>>

\* GdCell::new(value) for each cell of CS, linked with either pair of state
\* machine and guards.  cfg(debug_assertions) changes nothing in the module
\* pair (its only assertions are assert!), so it is varied for lib.rs only.
CellInit(CS) ==
    /\ ver \in {"lib", "mod"}
    /\ debug \in BOOLEAN
    /\ ver = "mod" => ~debug
    /\ state = [c \in Cells |-> new]
    /\ current_ptr = [c \in Cells |-> <<>>]
    /\ value \in {f \in [Cells -> Values] : \A c \in Cells \ CS : f[c] = 0}
    /\ lockState = [c \in Cells |-> 0]
    /\ lockPtr = [c \in Cells |-> 0]
    /\ poisonState = [c \in Cells |-> FALSE]
    /\ poisonPtr = [c \in Cells |-> FALSE]
    /\ guards = [g \in GuardIds |-> NoGuard]
    /\ pc = [t \in Threads |-> Idle]
    /\ ret = NoRet

CellNext(TS, CS) ==
    \E t \in TS :
        \/ \E c \in CS : gd_ref(t, c)
        \/ gd_ref_get_value(t)
        \/ \E c \in CS : gd_mut(t, c)
        \/ gd_mut_get_value(t)
        \/ \E c \in CS, g \in GuardIds : set_non_aliasing_check(t, c, g)
        \/ set_non_aliasing_state(t)
        \/ \E g \in GuardIds : GdRef_drop(t, g)
        \/ \E g \in GuardIds : GdMut_drop(t, g)
        \/ \E g \in GuardIds : NonAliasingGuard_drop(t, g)
        \/ NonAliasingGuard_drop_ptr(t)
        \/ \E g \in GuardIds : GdMut_deref(t, g)
        \/ \E g \in GuardIds, v \in Values : GdMut_deref_mut(t, g, v)
        \/ \E g \in GuardIds : GdRef_deref(t, g)

----------------------------------------------------------------------------
(* The specifications.                                                     *)

NoScript == [at |-> "", w |-> 0, was |-> 0]

\* No property test running.
NoTest ==
    /\ operations = <<>>
    /\ executor_no_shared_pairs = <<>>
    /\ state_all = new
    /\ state_no_shared_pairs = new
    /\ test = ""

\* One cell shared by the threads.
Init == BsInit /\ CellInit({1}) /\ script = NoScript /\ NoTest
Next == CellNext(Threads, {1}) /\ UNCHANGED <<bsVars, script, testVars>>
Spec == Init /\ [][Next]_vars

\* A bare BorrowState under every sequence of its six operations.
InitBS ==
    BsInit /\ CellInit({}) /\ ver = "mod" /\ script = NoScript /\ NoTest
NextBS ==
    /\ \/ IncShared
       \/ DecShared
       \/ IncMut
       \/ DecMut
       \/ SetNoAlias
       \/ UnsetNoAlias
    /\ UNCHANGED <<cellVars, script, testVars>>
SpecBS == InitBS /\ [][NextBS]_vars

\* The six operations on any value of the type BorrowState: every
\* combination of the three counters and of poisoned.
AnyBorrowState ==
    [shared_count : 0..UsizeMax, mut_count : 0..UsizeMax,
     non_aliasing_count : 0..UsizeMax, poisoned : BOOLEAN]
InitAny ==
    /\ bs \in AnyBorrowState /\ bsOp = "new" /\ bsRes = "Ok"
    /\ CellInit({}) /\ ver = "mod" /\ script = NoScript /\ NoTest
SpecAny == InitAny /\ [][NextBS]_vars

\* The property test remove_shared_inc_dec_pairs_is_noop on every vector of
\* operations it can draw.
InitPairs ==
    /\ BsInit /\ CellInit({}) /\ ver = "mod" /\ script = NoScript
    /\ remove_shared_inc_dec_pairs_is_noop_init
remove_shared_inc_dec_pairs_is_noop ==
    /\ \/ executor_all_execute_all
       \/ executor_all_remove_shared_inc_dec_pairs
       \/ executor_no_shared_pairs_execute_all
    /\ UNCHANGED <<bsVars, cellVars, script>>
SpecPairs == InitPairs /\ [][remove_shared_inc_dec_pairs_is_noop]_vars

\* Two cells borrowed, declared and released by one thread (the values are
\* not accessed).
InitTwo ==
    /\ BsInit /\ CellInit(Cells)
    /\ value = [c \in Cells |-> 0]
    /\ script = NoScript /\ NoTest
NextTwo ==
    /\ \/ \E c \in Cells : gd_ref(1, c)
       \/ gd_ref_get_value(1)
       \/ \E c \in Cells : gd_mut(1, c)
       \/ gd_mut_get_value(1)
       \/ \E c \in Cells, g \in GuardIds : set_non_aliasing_check(1, c, g)
       \/ set_non_aliasing_state(1)
       \/ \E g \in GuardIds : GdRef_drop(1, g)
       \/ \E g \in GuardIds : GdMut_drop(1, g)
       \/ \E g \in GuardIds : NonAliasingGuard_drop(1, g)
       \/ NonAliasingGuard_drop_ptr(1)
    /\ UNCHANGED <<bsVars, script, testVars>>
SpecTwo == InitTwo /\ [][NextTwo]_vars

\* One cell and one thread that may also leak its guards.  Declarations
\* that are never revoked leave their addresses on the stack: the run is
\* cut off when the stack is deeper than the guards could have made it.
NextForget ==
    /\ Len(current_ptr[1]) <= MaxGuards
    /\ \/ CellNext({1}, {1})
       \/ \E g \in GuardIds : forget(1, g)
    /\ UNCHANGED <<bsVars, script, testVars>>
SpecForget == Init /\ [][NextForget]_vars

\* Re-entrant calls of one thread on one cell, nested in strict LIFO order
\* as call_mut_method, call_immut_method and MyClass::base of mock.rs nest
\* them: a call borrows the cell (gd_mut or gd_ref) when nothing is
\* borrowed or the innermost guard is a declaration; a method declares the
\* innermost exclusive guard non-aliasing (base) and uses its reference;
\* only the innermost guard is dropped.
Innermost ==
    IF \A g \in GuardIds : guards[g] = NoGuard THEN 0
    ELSE CHOOSE g \in GuardIds :
             /\ guards[g] # NoGuard
             /\ \A h \in GuardIds : guards[h] # NoGuard => h <= g
MayReenter ==
    IF Innermost = 0 THEN TRUE
    ELSE guards[Innermost].kind = "NonAliasingGuard"
NextNested ==
    /\ \/ MayReenter /\ gd_mut(1, 1)
       \/ gd_mut_get_value(1)
       \/ MayReenter /\ gd_ref(1, 1)
       \/ gd_ref_get_value(1)
       \/ \E g \in {Innermost} \ {0} : set_non_aliasing_check(1, 1, g)
       \/ set_non_aliasing_state(1)
       \/ \E g \in {Innermost} \ {0} : GdMut_deref(1, g)
       \/ \E g \in {Innermost} \ {0}, v \in Values : GdMut_deref_mut(1, g, v)
       \/ \E g \in {Innermost} \ {0} : GdRef_deref(1, g)
       \/ \E g \in {Innermost} \ {0} : GdRef_drop(1, g)
       \/ \E g \in {Innermost} \ {0} : GdMut_drop(1, g)
       \/ \E g \in {Innermost} \ {0} : NonAliasingGuard_drop(1, g)
       \/ NonAliasingGuard_drop_ptr(1)
    /\ UNCHANGED <<bsVars, script, testVars>>
SpecNested == Init /\ [][NextNested]_vars

\* The test allow_non_aliasing_mut_mut of lib.rs, statement by statement, on
\* one cell and one thread: guard1, no_alias_guard on its reference, guard2
\* under it, a write through guard2, both released, a read and a write
\* through guard1, guard1 released, guard3 (shared) and a read through it.
guard1(g) == guards[g].kind = "GdMut" /\ guards[g].count = 1
guard2(g) == guards[g].kind = "GdMut" /\ guards[g].count = 2
no_alias_guard(g) == guards[g].kind = "NonAliasingGuard"
guard3(g) == guards[g].kind = "GdRef"

Step(from, to) ==
    /\ script.at = from
    /\ script' = [script EXCEPT !.at = to]

Write(from, to, v) ==
    /\ script.at = from
    /\ script' = [at |-> to, w |-> v, was |-> script.w]

InitScript ==
    /\ BsInit /\ CellInit({1})
    /\ script = [at |-> "new", w |-> value[1], was |-> value[1]]
    /\ NoTest
allow_non_aliasing_mut_mut ==
    /\ \/ gd_mut(1, 1) /\ Step("new", "guard1:state")
       \/ gd_mut_get_value(1) /\ Step("guard1:state", "guard1")
       \/ /\ \E g \in GuardIds : guard1(g) /\ set_non_aliasing_check(1, 1, g)
          /\ Step("guard1", "no_alias_guard:ptr")
       \/ set_non_aliasing_state(1) /\ Step("no_alias_guard:ptr", "no_alias_guard")
       \/ gd_mut(1, 1) /\ Step("no_alias_guard", "guard2:state")
       \/ gd_mut_get_value(1) /\ Step("guard2:state", "guard2")
       \/ \E g \in GuardIds, v \in Values :
              /\ guard2(g) /\ GdMut_deref_mut(1, g, v)
              /\ Write("guard2", "guard2 written", v)
       \/ /\ \E g \in GuardIds : guard2(g) /\ GdMut_drop(1, g)
          /\ Step("guard2 written", "guard2 dropped")
       \/ /\ \E g \in GuardIds : no_alias_guard(g) /\ NonAliasingGuard_drop(1, g)
          /\ Step("guard2 dropped", "no_alias_guard:drop")
       \/ /\ NonAliasingGuard_drop_ptr(1)
          /\ Step("no_alias_guard:drop", "no_alias_guard dropped")
       \/ /\ \E g \in GuardIds : guard1(g) /\ GdMut_deref(1, g)
          /\ Step("no_alias_guard dropped", "guard1 read")
       \/ \E g \in GuardIds, v \in Values :
              /\ guard1(g) /\ GdMut_deref_mut(1, g, v)
              /\ Write("guard1 read", "guard1 written", v)
       \/ /\ \E g \in GuardIds : guard1(g) /\ GdMut_drop(1, g)
          /\ Step("guard1 written", "guard1 dropped")
       \/ gd_ref(1, 1) /\ Step("guard1 dropped", "guard3:state")
       \/ gd_ref_get_value(1) /\ Step("guard3:state", "guard3")
       \/ /\ \E g \in GuardIds : guard3(g) /\ GdRef_deref(1, g)
          /\ Step("guard3", "guard3 read")
    /\ UNCHANGED <<bsVars, testVars>>
SpecScript == InitScript /\ [][allow_non_aliasing_mut_mut]_vars

----------------------------------------------------------------------------
(* Properties of the bare state machine (SpecBS).                          *)

\* C2: after any sequence of the six operations, succeeding or failing, a
\* shared borrow and a possibly aliasing exclusive borrow are never tracked
\* together: not (shared_count > 0 and mut_count - non_aliasing_count > 0).
C2_NoSharedAndMut ==
    ~(bs.shared_count > 0 /\ bs.mut_count - bs.non_aliasing_count > 0)

\* A shared borrow tracked next to a declared exclusive borrow, with an
\* operation just refused.
C2_Witness ==
    /\ bs.shared_count > 0 /\ bs.mut_count > 0
    /\ bsRes \notin {"Ok", "panic"}

\* C3: non_aliasing_count <= mut_count and the difference is 0 or 1 in
\* every reached state, so has_possibly_aliasing neither underflows nor
\* fails its assertion (no operation panics).
C3_AtMostOneAliasing ==
    /\ bs.non_aliasing_count <= bs.mut_count
    /\ bs.mut_count - bs.non_aliasing_count \in {0, 1}
    /\ ~has_possibly_aliasing_panics(bs)
    /\ bsRes # "panic"

\* Two nested exclusive borrows, the outer one declared, the inner one not.
C3_Witness ==
    /\ bs.mut_count = 2 /\ bs.non_aliasing_count = 1
    /\ bsOp = "IncMut" /\ bsRes = "Ok"

\* What a successful operation is documented to do, and nothing else.
expected_on_success(op, original) ==
    CASE op = "IncShared" -> [original EXCEPT !.shared_count = @ + 1]
      [] op = "DecShared" -> [original EXCEPT !.shared_count = @ - 1]
      [] op = "IncMut" -> [original EXCEPT !.mut_count = @ + 1]
      [] op = "DecMut" -> [original EXCEPT !.mut_count = @ - 1]
      [] op = "SetNoAlias" -> [original EXCEPT !.non_aliasing_count = @ + 1]
      [] op = "UnsetNoAlias" -> [original EXCEPT !.non_aliasing_count = @ - 1]

\* C4: every operation either returns Ok and changes exactly its own
\* counter by exactly 1 (poisoned and the other counters unchanged), or
\* returns an error and leaves the whole state as it was.
C4_OnlyExpectedOrNothing ==
    [][IF bsRes' = "Ok"
       THEN bs' = expected_on_success(bsOp', bs)
       ELSE bs' = bs]_vars

\* A refused operation on a state with all three kinds of borrow tracked.
C4_Witness ==
    /\ bsOp = "UnsetNoAlias" /\ bsRes = "HasSharedRef"
    /\ bs.shared_count > 0 /\ bs.non_aliasing_count > 0

\* C5: no sequence of the six operations sets poisoned, and no operation
\* returns IsPoisoned or Poisoned.
C5_NoPoison ==
    /\ ~bs.poisoned
    /\ bsRes \notin {"IsPoisoned", "Poisoned"}

\* The end of the trace of the test poisoned_unset_shared_ref: a shared
\* borrow released while the declaration it was taken under is still there.
C5_Witness ==
    /\ bsOp = "DecShared" /\ bsRes = "Ok"
    /\ bs.shared_count = 1 /\ bs.mut_count = 1 /\ bs.non_aliasing_count = 1

\* C15: in every state reached from new(), increment_mut returns Ok if and
\* only if no possibly aliasing exclusive borrow is tracked and shared_count
\* is 0, and a decrement_mut right after a successful increment_mut
\* returns Ok.
C15_IncrementMutIff ==
    [][IncMut =>
          /\ bsRes' = "Ok" <=>
                 ~has_possibly_aliasing(bs) /\ bs.shared_count = 0
          /\ bsRes' = "Ok" => decrement_mut(bs').r = "Ok"]_vars

\* C15 as the code has it: increment_mut returns Ok if and only if no
\* possibly aliasing exclusive borrow is tracked, shared_count is 0 and
\* mut_count is below the maximum of usize; at the maximum it returns the
\* Custom error of checked_add and changes nothing; a decrement_mut right
\* after a successful increment_mut returns Ok.
C15_IncrementMutIffBelowMax ==
    [][IncMut =>
          /\ bsRes' = "Ok" <=>
                 /\ ~has_possibly_aliasing(bs) /\ bs.shared_count = 0
                 /\ bs.mut_count < UsizeMax
          /\ bs.shared_count > 0 => bsRes' = "HasSharedRef" /\ bs' = bs
          /\ has_possibly_aliasing(bs) => bsRes' = "HasAliasingRef" /\ bs' = bs
          /\ /\ ~has_possibly_aliasing(bs) /\ bs.shared_count = 0
             /\ bs.mut_count = UsizeMax
             => bsRes' = "Custom" /\ bs' = bs
          /\ bsRes' = "Ok" => decrement_mut(bs').r = "Ok"]_vars

\* increment_mut refused for overflow: every exclusive borrow is declared
\* non-aliasing, no shared borrow is tracked, mut_count is at the maximum.
C15_Witness ==
    /\ bsOp = "IncMut" /\ bsRes = "Custom"
    /\ bs.mut_count = UsizeMax /\ bs.non_aliasing_count = UsizeMax
    /\ bs.shared_count = 0

\* C16: in every state reached from new(), increment_shared returns Ok if
\* and only if no possibly aliasing exclusive borrow is tracked, and a
\* decrement_shared right after a successful increment_shared returns Ok.
C16_IncrementSharedIff ==
    [][IncShared =>
          /\ bsRes' = "Ok" <=> ~has_possibly_aliasing(bs)
          /\ bsRes' = "Ok" => decrement_shared(bs').r = "Ok"]_vars

\* C16 as the code has it: increment_shared returns Ok if and only if no
\* possibly aliasing exclusive borrow is tracked and shared_count is below
\* the maximum of usize (so also when shared borrows exist and when every
\* exclusive borrow is declared non-aliasing); at the maximum it returns the
\* Custom error of checked_add and changes nothing; a decrement_shared
\* right after a successful increment_shared returns Ok.
C16_IncrementSharedIffBelowMax ==
    [][IncShared =>
          /\ bsRes' = "Ok" <=>
                 ~has_possibly_aliasing(bs) /\ bs.shared_count < UsizeMax
          /\ has_possibly_aliasing(bs) => bsRes' = "HasAliasingRef" /\ bs' = bs
          /\ ~has_possibly_aliasing(bs) /\ bs.shared_count = UsizeMax =>
                 bsRes' = "Custom" /\ bs' = bs
          /\ bsRes' = "Ok" => decrement_shared(bs').r = "Ok"]_vars

\* increment_shared accepted next to another shared borrow and a declared
\* exclusive borrow.
C16_Witness ==
    /\ bsOp = "IncShared" /\ bsRes = "Ok"
    /\ bs.shared_count = 2
    /\ bs.mut_count = 1 /\ bs.non_aliasing_count = 1

\* C27: in every state reached from new(), decrement_mut with mut_count > 0
\* and mut_count = non_aliasing_count returns IsNonAliasing and changes
\* nothing, and with mut_count = 0 it returns NoMutRef and changes nothing;
\* it returns Ok only when the current exclusive borrow is not declared,
\* and once the declaration of a refused borrow has been revoked by
\* unset_non_aliasing the release is accepted.
C27_DecrementMutRefusesDeclared ==
    [][DecMut =>
          /\ bs.mut_count > 0 /\ bs.mut_count = bs.non_aliasing_count =>
                 /\ bsRes' = "IsNonAliasing" /\ bs' = bs
                 /\ unset_non_aliasing(bs).r = "Ok" =>
                        decrement_mut(unset_non_aliasing(bs).s).r = "Ok"
          /\ bs.mut_count = 0 => bsRes' = "NoMutRef" /\ bs' = bs
          /\ bsRes' = "Ok" => bs.mut_count = bs.non_aliasing_count + 1]_vars

\* decrement_mut has just been refused on the inner of two nested exclusive
\* borrows, both declared non-aliasing.
C27_Witness ==
    /\ bsOp = "DecMut" /\ bsRes = "IsNonAliasing"
    /\ bs.mut_count = 2 /\ bs.non_aliasing_count = 2
    /\ bs.shared_count = 0

\* C17: in every state reached from new(), set_non_aliasing returns Ok if
\* and only if a possibly aliasing exclusive borrow is tracked; it is
\* refused, changing nothing, whenever a shared borrow is tracked and
\* whenever mut_count = non_aliasing_count; after a success an
\* unset_non_aliasing returns Ok and leaves the state as it was before the
\* pair.
C17_SetNonAliasingIff ==
    [][SetNoAlias =>
          /\ bsRes' = "Ok" <=> has_possibly_aliasing(bs)
          /\ bs.shared_count > 0 \/ bs.mut_count = bs.non_aliasing_count =>
                 bsRes' = "NoAliasingRef" /\ bs' = bs
          /\ bsRes' = "Ok" =>
                 /\ unset_non_aliasing(bs').r = "Ok"
                 /\ unset_non_aliasing(bs').s = bs]_vars

\* The inner of two nested exclusive borrows has just been declared
\* non-aliasing.
C17_Witness ==
    /\ bsOp = "SetNoAlias" /\ bsRes = "Ok"
    /\ bs.mut_count = 2 /\ bs.non_aliasing_count = 2

\* C18: unset_non_aliasing returns Ok if and only if no possibly aliasing
\* exclusive borrow is tracked, shared_count is 0 and non_aliasing_count is
\* above 0; while a shared borrow taken under a declaration is tracked it
\* returns HasSharedRef and changes nothing.
C18_UnsetNonAliasingIff ==
    [][UnsetNoAlias =>
          /\ bsRes' = "Ok" <=>
                 /\ ~has_possibly_aliasing(bs) /\ bs.shared_count = 0
                 /\ bs.non_aliasing_count > 0
          /\ bs.shared_count > 0 /\ bs.non_aliasing_count > 0 =>
                 bsRes' = "HasSharedRef" /\ bs' = bs]_vars

\* The inner declaration of two is refused its revocation because of a
\* shared borrow.
C18_Witness ==
    /\ bsOp = "UnsetNoAlias" /\ bsRes = "HasSharedRef"
    /\ bs.shared_count = 1
    /\ bs.mut_count = 2 /\ bs.non_aliasing_count = 2

\* C20: with its counter at the maximum of usize, increment_shared,
\* increment_mut and set_non_aliasing each return the Custom error of a
\* failed checked_add and leave every counter as it was.
C20_OverflowIsAnError ==
    [][/\ IncShared /\ bs.shared_count = UsizeMax =>
              bsRes' = "Custom" /\ bs' = bs
       /\ IncMut /\ bs.mut_count = UsizeMax =>
              bsRes' = "Custom" /\ bs' = bs
       /\ SetNoAlias /\ bs.non_aliasing_count = UsizeMax =>
              bsRes' = "Custom" /\ bs' = bs]_vars

\* C20 as the code has it: with its counter at the maximum each of the
\* three increments fails and leaves every counter as it was.  The error is
\* the Custom one of checked_add only where the checks before the addition
\* pass: always for increment_shared; for increment_mut when every
\* exclusive borrow is declared non-aliasing and no shared borrow is
\* tracked (HasAliasingRef, HasSharedRef otherwise); never for
\* set_non_aliasing, which returns NoAliasingRef because
\* non_aliasing_count at the maximum leaves no possibly aliasing borrow.
C20_OverflowIsRefused ==
    [][/\ IncShared /\ bs.shared_count = UsizeMax =>
              bsRes' = "Custom" /\ bs' = bs
       /\ IncMut /\ bs.mut_count = UsizeMax =>
              /\ bs' = bs
              /\ bsRes' = IF has_possibly_aliasing(bs) THEN "HasAliasingRef"
                          ELSE IF bs.shared_count > 0 THEN "HasSharedRef"
                          ELSE "Custom"
       /\ SetNoAlias /\ bs.non_aliasing_count = UsizeMax =>
              bsRes' = "NoAliasingRef" /\ bs' = bs
       /\ SetNoAlias => bsRes' # "Custom"]_vars

\* increment_shared refused with as many shared borrows tracked as usize
\* can count.
C20_Witness ==
    /\ bsOp = "IncShared" /\ bsRes = "Custom"
    /\ bs.shared_count = UsizeMax

----------------------------------------------------------------------------
(* Properties of the operations on any BorrowState (SpecAny).              *)

----------------------------------------------------------------------------
(* Properties of the operation vectors (SpecPairs).                        *)

IncSharedOverflows(vec) ==
    \E i \in 1..Len(vec) :
        /\ vec[i] = "IncShared"
        /\ execute_all(SubSeq(vec, 1, i - 1), new).s.shared_count = UsizeMax

----------------------------------------------------------------------------
(* Properties of a cell shared by threads (Spec).                          *)

\* A thread that runs normally: it has not panicked and the process has
\* not aborted.  The guards of a thread that unwinds are no accessors any
\* more: all it still does with them is run their destructors.
Running(t) == ~pc[t].unwinding /\ pc[t].at # "aborted"

Live(g, kind) == guards[g].kind = kind /\ Running(guards[g].owner)

\* An exclusive guard is covered while a NonAliasingGuard made from its
\* reference is live.
Covered(g) == Borrowed(g)

\* C1: no reachable state has, on one cell, (a) a live shared guard together
\* with a live exclusive guard that no live non-aliasing declaration covers,
\* or (b) two live exclusive guards neither of which is covered.
C1_Exclusivity ==
    \A g \in GuardIds :
        Live(g, "GdMut") /\ ~Covered(g) =>
            \A h \in GuardIds :
                guards[h].cell = guards[g].cell =>
                    /\ ~Live(h, "GdRef")
                    /\ h # g => ~(Live(h, "GdMut") /\ ~Covered(h))

\* C6: the destructor of a NonAliasingGuard always succeeds: when it comes
\* to revoke the declaration (both mutexes taken, neither poisoned by an
\* earlier panic) the call returns Ok, non_aliasing_count goes down by
\* exactly 1 and exactly one address is popped.
C6_NonAliasingGuardDropSucceeds ==
    [][\A t \in Threads :
          NonAliasingGuard_drop_ptr(t) /\ ~poisonPtr[pc[t].c] =>
              /\ ret'.r = "Ok"
              /\ state'[pc[t].c].non_aliasing_count
                     = state[pc[t].c].non_aliasing_count - 1
              /\ Len(current_ptr'[pc[t].c]) = Len(current_ptr[pc[t].c]) - 1]_vars

\* C7: no state has one thread holding the state mutex of a cell and
\* waiting for its current_ptr mutex while another thread holds that
\* current_ptr mutex and waits for the state mutex.
C7_NoLockOrderDeadlock ==
    ~\E c \in Cells : \E t, u \in Threads :
        /\ t # u
        /\ lockState[c] = t
        /\ pc[t].at \in {"gd_mut:get_value", "NonAliasingGuard::drop:ptr"}
        /\ pc[t].c = c
        /\ lockPtr[c] = u
        /\ pc[u].at = "set_non_aliasing:state"
        /\ pc[u].c = c

\* A thread outside every call of the cell and of its guards.
AtRest(t) == pc[t].at \in {"idle", "panicked"}

\* The mutex the next step of a call in progress locks (0: none), by the
\* place the thread is at.
Awaits(t) ==
    CASE pc[t].at \in {"gd_ref:get_value", "gd_mut:get_value",
                       "NonAliasingGuard::drop:ptr"} -> lockPtr[pc[t].c]
      [] pc[t].at = "set_non_aliasing:state" -> lockState[pc[t].c]
      [] OTHER -> 0

\* C22: a thread outside a call (gd_ref, gd_mut, set_non_aliasing or a
\* destructor has returned) holds neither the state mutex nor the
\* current_ptr mutex of any cell; so while all other threads are outside
\* calls every mutex is free or held by the calling thread itself, and the
\* mutex its next step locks is free.
C22_NoLockOutsideCalls ==
    /\ \A t \in Threads, c \in Cells :
           AtRest(t) => lockState[c] # t /\ lockPtr[c] # t
    /\ \A t \in Threads :
           (\A u \in Threads \ {t} : AtRest(u)) =>
               /\ \A c \in Cells : lockState[c] \in {0, t} /\ lockPtr[c] \in {0, t}
               /\ Awaits(t) = 0

\* Thread 1, outside a call, holds an exclusive guard and its declaration
\* while thread 2 is inside gd_mut with the state mutex locked.
C22_Witness ==
    /\ AtRest(1)
    /\ \E g, n \in GuardIds :
           /\ guards[g].kind = "GdMut" /\ guards[g].owner = 1
           /\ guards[n].kind = "NonAliasingGuard" /\ guards[n].owner = 1
    /\ pc[2].at = "gd_mut:get_value" /\ lockState[1] = 2

\* C23: the destructor of a live shared guard returns without a panic,
\* shared_count of its cell is one less than before and every other counter
\* is as before.
C23_GdRefDropSucceeds ==
    [][\A t \in Threads, g \in GuardIds :
          GdRef_drop(t, g) /\ Live(g, "GdRef") =>
              /\ ret' = [op |-> "GdRef::drop", r |-> "Ok", v |-> 0]
              /\ state' = [state EXCEPT
                               ![guards[g].cell].shared_count = @ - 1]]_vars

\* C24: the destructor of a live exclusive guard that no live non-aliasing
\* declaration covers returns without a panic, mut_count of its cell is one
\* less than before and shared_count and non_aliasing_count are as before.
C24_GdMutDropSucceeds ==
    [][\A t \in Threads, g \in GuardIds :
          GdMut_drop(t, g) /\ Live(g, "GdMut") /\ ~Covered(g) =>
              LET c == guards[g].cell IN
              /\ ret' = [op |-> "GdMut::drop", r |-> "Ok", v |-> 0]
              /\ state'[c].mut_count = state[c].mut_count - 1
              /\ state'[c].shared_count = state[c].shared_count
              /\ state'[c].non_aliasing_count = state[c].non_aliasing_count]_vars

\* C8: every live exclusive guard that no live non-aliasing declaration
\* covers passes the check of deref: its captured count is the cell's
\* mut_count.
C8_DerefCheckPasses ==
    \A g \in GuardIds :
        Live(g, "GdMut") /\ ~Covered(g) => GdMut_deref_check(g)

\* C30: no two live exclusive guards of one cell carry the same captured
\* count, so that at most one live exclusive guard of a cell passes the
\* check of deref at a time.
C30_CapturedCountsDiffer ==
    \A g, h \in GuardIds :
        /\ g # h
        /\ Live(g, "GdMut") /\ Live(h, "GdMut")
        /\ guards[g].cell = guards[h].cell
        => /\ guards[g].count # guards[h].count
           /\ ~(GdMut_deref_check(g) /\ GdMut_deref_check(h))

\* An exclusive guard of cell c that is live and has not been declared
\* non-aliasing.
Undeclared(g, c) ==
    Live(g, "GdMut") /\ guards[g].cell = c /\ ~Covered(g)

\* C13: while an exclusive guard of the cell is live and not declared
\* non-aliasing, a gd_mut on the cell returns an error and changes no
\* counter, no value and no guard, so the first guard dereferences as before.
C13_SecondGdMutRefused ==
    [][\A t \in Threads :
          gd_mut(t, 1) /\ (\E g \in GuardIds : Undeclared(g, 1)) =>
              /\ pc'[t].at = "idle"
              /\ ret'.op = "gd_mut" /\ ret'.r \notin {"Ok", "panic"}
              /\ state' = state /\ value' = value /\ guards' = guards]_vars

\* The last call that returned was the destructor of an exclusive guard, and
\* no guard of any kind is left.
ExclusiveDropped ==
    /\ ret.op = "GdMut::drop" /\ ret.r = "Ok"
    /\ \A g \in GuardIds : guards[g] = NoGuard

\* C14: while an exclusive guard of the cell is live and not declared
\* non-aliasing a gd_ref on the cell fails; after that exclusive guard has
\* been dropped and no guard is left, the next gd_ref passes increment_shared
\* and returns a shared guard.
C14_SharedAfterExclusiveDropped ==
    [][\A t \in Threads :
          /\ gd_ref(t, 1) /\ (\E g \in GuardIds : Undeclared(g, 1)) =>
                 /\ pc'[t].at # "gd_ref:get_value"
                 /\ ret'.op = "gd_ref" /\ ret'.r # "Ok"
                 /\ guards' = guards
          /\ gd_ref(t, 1) /\ ExclusiveDropped /\ Pending = {} =>
                 pc'[t].at = "gd_ref:get_value"
          /\ gd_ref_get_value(t) /\ ExclusiveDropped /\ Pending = {t} =>
                 /\ ret'.op = "gd_ref" /\ ret'.r = "Ok"
                 /\ \E g \in GuardIds : guards'[g].kind = "GdRef"]_vars

\* The exclusive guard has been dropped, no guard is left, and a gd_ref has
\* passed increment_shared.
C14_Witness ==
    /\ ExclusiveDropped
    /\ \E t \in Threads : pc[t].at = "gd_ref:get_value" /\ pc[t].c = 1
    /\ state[1].shared_count = 1 /\ state[1].mut_count = 0

----------------------------------------------------------------------------
(* Properties of re-entrant calls nested in LIFO order (SpecNested).       *)

\* C26: every call and every guard drop of calls nested in strict LIFO
\* order returns Ok and nothing panics; when the outermost guard has been
\* dropped all counters are 0, the address stack holds the base address
\* alone, and no mutex is locked or poisoned, so that the gd_ref or gd_mut
\* tried next falls under the first part.
C26_NestedCallsSucceed ==
    /\ ret.r \in {"", "Ok"}
    /\ \A t \in Threads : pc[t].at \notin {"panicked", "aborted"}
    /\ Innermost = 0 /\ pc[1].at = "idle" /\ ret.op # "" =>
           /\ state[1] = new
           /\ current_ptr[1] = <<1>>
           /\ lockState[1] = 0 /\ lockPtr[1] = 0
           /\ ~poisonState[1] /\ ~poisonPtr[1]

\* Two exclusive borrows nested, each declared non-aliasing, and a shared
\* borrow or nothing yet under the inner declaration.
C26_Witness ==
    /\ guards[1].kind = "GdMut" /\ guards[2].kind = "NonAliasingGuard"
    /\ guards[3].kind = "GdMut" /\ guards[4].kind = "NonAliasingGuard"
    /\ guards[2].of = 1 /\ guards[4].of = 3
    /\ state[1].mut_count = 2 /\ state[1].non_aliasing_count = 2
    /\ current_ptr[1] = <<1, 1, 1>>
    /\ ret = [op |-> "set_non_aliasing", r |-> "Ok", v |-> 0]

----------------------------------------------------------------------------
(* Properties of the scripted round trip (SpecScript).                     *)

\* C9: in the nested re-borrow round trip every call succeeds (the
\* declaration on guard1's reference, the second gd_mut, the drops, the
\* dereferences, the final gd_ref); the read through guard1 after the inner
\* guard and the declaration are gone returns the value the inner guard
\* wrote, and the read through the shared guard taken after guard1 is gone
\* returns the value written last through guard1.
C9_RoundTrip ==
    /\ ret.r \in {"", "Ok"}
    /\ script.at \in {"guard1 read", "guard3 read"} => ret.v = script.w

\* The end of the round trip, the shared guard having read a value that
\* guard1 changed.
C9_Witness ==
    /\ script.at = "guard3 read"
    /\ ret = [op |-> "GdRef::deref", r |-> "Ok", v |-> script.w]
    /\ script.w # script.was

----------------------------------------------------------------------------
(* Properties of two cells (SpecTwo).                                      *)

\* C10: set_non_aliasing called on a cell with a reference whose address
\* is not the top of that cell's address stack returns an error, and the
\* counters and the address stacks of all cells are as before the call.
C10_WrongReferenceRefused ==
    [][\A c \in Cells, g \in GuardIds :
          /\ set_non_aliasing_check(1, c, g)
          /\ ~poisonPtr[c]
          /\ current_ptr[c] # <<>>
          /\ Last(current_ptr[c]) # guards[g].value
          => /\ ret'.r = "Err(wrong reference)"
             /\ pc'[1].at = "idle"
             /\ state' = state
             /\ current_ptr' = current_ptr]_vars

\* The end of the test different_non_aliasing: an exclusive guard on each
\* cell, and the declaration on one cell of the other's reference refused.
C10_Witness ==
    /\ ret.r = "Err(wrong reference)"
    /\ \E g, h \in GuardIds :
          /\ guards[g].kind = "GdMut" /\ guards[g].cell = 1
          /\ guards[h].kind = "GdMut" /\ guards[h].cell = 2
    /\ \A c \in Cells : state[c].mut_count = 1 /\ state[c].non_aliasing_count = 0

\* C25: every entry of a cell's address stack is the address of that
\* cell's value, and every shared or exclusive guard points at the value of
\* the cell it was taken from, whatever the depth of the declarations.
C25_StackHoldsBase ==
    /\ \A c \in Cells : \A i \in 1..Len(current_ptr[c]) : current_ptr[c][i] = c
    /\ \A g \in GuardIds :
           guards[g].kind \in {"GdRef", "GdMut"} =>
               guards[g].value = guards[g].cell

\* The first cell is borrowed, the second carries a declaration, and a
\* guard was handed out under that declaration.
C25_Witness ==
    /\ Len(current_ptr[1]) = 1 /\ Len(current_ptr[2]) = 2
    /\ \E g \in GuardIds : guards[g].kind = "GdMut" /\ guards[g].cell = 1
    /\ \E g \in GuardIds :
           /\ guards[g].kind \in {"GdRef", "GdMut"} /\ guards[g].cell = 2
           /\ ~Borrowed(g)

\* C12: in every state of a cell in which no borrow is possibly aliasing
\* (a freshly constructed cell with an empty address stack included) a
\* set_non_aliasing call neither panics nor succeeds: it returns an error.
C12_ErrWithoutAliasingBorrow ==
    [][\A c \in Cells :
          /\ state[c].mut_count = state[c].non_aliasing_count
          /\ ~poisonPtr[c] /\ ~poisonState[c]
          => /\ \A g \in GuardIds :
                    set_non_aliasing_check(1, c, g) =>
                        /\ ~pc'[1].unwinding
                        /\ pc'[1].at = "idle" => ret'.r \notin {"Ok", "panic"}
             /\ set_non_aliasing_state(1) /\ pc[1].c = c =>
                    /\ ~pc'[1].unwinding
                    /\ ret'.r \notin {"Ok", "panic"}]_vars

----------------------------------------------------------------------------
(* Properties of a cell whose guards may be leaked (SpecForget).           *)

\* C29: once the address stack of a cell has been initialised by its
\* first borrow, its length is non_aliasing_count + 1 in every state, after
\* successful and failed calls alike.
C29_StackDepthIsDeclarations ==
    \A c \in Cells :
        current_ptr[c] # <<>> =>
            Len(current_ptr[c]) = state[c].non_aliasing_count + 1

\* An exclusive guard whose borrow is declared non-aliasing in the state
\* machine: declarations cover the exclusive borrows from the outermost
\* inwards, and the guard's captured count is its nesting depth.
DeclaredNonAliasing(g) ==
    /\ guards[g].kind = "GdMut"
    /\ guards[g].count <= state[guards[g].cell].non_aliasing_count

\* C28: a dereference (deref or deref_mut) of an exclusive guard made
\* while a non-aliasing declaration of its borrow is live panics in the
\* count assertion and yields no reference to the value.
C28_DeclaredGuardUseDetected ==
    [][\A g \in GuardIds :
          /\ DeclaredNonAliasing(g)
          /\ GdMut_deref(1, g) \/ \E v \in Values : GdMut_deref_mut(1, g, v)
          => /\ pc'[1].at \in {"panicked", "aborted"}
             /\ ret'.r # "Ok"]_vars

\* C11: a set_non_aliasing call whose reference matches the top of the
\* address stack and that returns an error because the state machine
\* rejects the declaration leaves the counters and the address stack
\* (its length included) as they were.
C11_RejectedDeclarationChangesNothing ==
    [][set_non_aliasing_state(1) /\ ret'.r \notin {"Ok", "panic"} =>
          /\ state' = state
          /\ current_ptr' = current_ptr
          /\ Len(current_ptr'[pc[1].c]) = Len(current_ptr[pc[1].c])]_vars

====
